---- MODULE Spec2Model ----
(***************************************************************************)
(* A model of make_book.py and make_chapter.py: the temporary-directory    *)
(* context managers, the render / compile / copy pipeline of both scripts, *)
(* the volume splitting of split_volumes and the fragment names chosen by  *)
(* build_sections.                                                         *)
(*                                                                         *)
(* A section is identified by its 1-based position in                      *)
(* book_info['sections'] (position k is Python's sections[k-1]).  A ToC    *)
(* line is abstracted to the three things split_volumes looks at: whether  *)
(* it contains '{chapter}', whether it contains 'LICENSE', and the page    *)
(* number captured by the section regex, when the regex matches.          *)
(* The section regex is read as the interpreters the script was written    *)
(* for read it (Python 3.5 and 3.6, where its leading '\c' matches the      *)
(* letter c); later interpreters reject the pattern when it is first used. *)
(* A file path is a sequence of symbols: the characters '.', '/', '_' and  *)
(* name atoms that hold none of them.                                      *)
(***************************************************************************)
EXTENDS Integers, Sequences, FiniteSets, TLC

\* ----------------------------------------------------------------- bounds
MaxSections == 3
MaxTocLines == 3
MaxPage == 4
MaxVolumes == 3
MaxPathLen == 3
MaxFiles == 2

\* ------------------------------------------------------ program constants
\* split_volumes returns the book itself when number_volumes < 2
MinSplit == 2
\* create_toc runs pdflatex twice
TocPasses == 2
\* create_pdf runs pdflatex once more
PdfPasses == 1

\* ------------------------------------------------------------ ToC inputs
Pages == 1..MaxPage

\* a '\contentsline {chapter}...' line: skipped by the first test
ChapterLine == [chapter |-> TRUE, license |-> FALSE, matched |-> FALSE, page |-> 0]
\* a '\contentsline {section}{LICENSE}{p}' line: the regex would match it,
\* the second test skips it
LicenseLine(p) == [chapter |-> FALSE, license |-> TRUE, matched |-> TRUE, page |-> p]
\* a '\contentsline {section}{title}{p}' line
SectionLine(p) == [chapter |-> FALSE, license |-> FALSE, matched |-> TRUE, page |-> p]
\* any other line: the regex does not match
OtherLine == [chapter |-> FALSE, license |-> FALSE, matched |-> FALSE, page |-> 0]

TocLines == {ChapterLine, LicenseLine(1), OtherLine} \cup {SectionLine(p) : p \in Pages}

SeqsUpTo(S, n) == UNION {[1..k -> S] : k \in 0..n}

\* the worked scenario of the design: last_page = 100 with four volumes and
\* sections at pages 24, 25, 99 and 100
ScenarioToc ==
    [exists |-> TRUE,
     lines |-> <<SectionLine(24), SectionLine(25), SectionLine(99), SectionLine(100)>>]

\* what pdflatex may leave as book.toc: nothing, or any short list of lines
\* (and the scenario's ToC)
TocFiles == {[exists |-> FALSE, lines |-> <<>>], ScenarioToc}
              \cup {[exists |-> TRUE, lines |-> ls] : ls \in SeqsUpTo(TocLines, MaxTocLines)}

\* the values of --volumes and the section counts that are tried (with the
\* scenario's four volumes and four sections)
VolumeCounts == (0..MaxVolumes) \cup {4}
SectionCounts == (0..MaxSections) \cup {4}

\* ------------------------------------------------------------ OrderedDict
\* An OrderedDict is a sequence of [page, section] pairs with distinct pages,
\* in insertion order.
Keys(od) == {od[i].page : i \in 1..Len(od)}

\* od[page] = section: a new key is appended, an existing key keeps its
\* position and takes the new value
Put(od, page, section) ==
    IF page \in Keys(od)
    THEN [i \in 1..Len(od) |->
            IF od[i].page = page THEN [page |-> page, section |-> section] ELSE od[i]]
    ELSE Append(od, [page |-> page, section |-> section])

SetMax(S) == CHOOSE x \in S : \A y \in S : y <= x

Min(a, b) == IF a <= b THEN a ELSE b

\* ------------------------------------------------- split_volumes, parsing
\* a lookup that stops at the last section instead of raising
SectionAtClamped(section_count, nsec) ==
    [err |-> "none", section |-> Min(section_count + 1, nsec)]

\* book_info['sections'][section_count]: the section at that position, or an
\* IndexError once section_count has run past the list
SectionAt(section_count, nsec) ==
    IF section_count >= nsec
    THEN [err |-> "IndexError", section |-> 0]
    ELSE [err |-> "none", section |-> section_count + 1]

\* The loop over the lines of the ToC file; count is section_count.
RECURSIVE ParseLines(_, _, _, _)
ParseLines(lines, od, count, nsec) ==
    IF lines = <<>> THEN [od |-> od, count |-> count, err |-> "none"]
    ELSE LET line == Head(lines) IN
         IF line.chapter THEN ParseLines(Tail(lines), od, count, nsec)
         ELSE IF line.license THEN ParseLines(Tail(lines), od, count, nsec)
         ELSE IF line.matched
              THEN LET s == SectionAt(count, nsec) IN
                   IF s.err # "none"
                   THEN [od |-> od, count |-> count, err |-> s.err]
                   ELSE ParseLines(Tail(lines), Put(od, line.page, s.section),
                                   count + 1, nsec)
              ELSE ParseLines(Tail(lines), od, count, nsec)

\* max(page_to_section.keys(), default=0): no error on an empty dictionary
LastPageNumberDefault(od) ==
    [err |-> "none", page |-> IF od = <<>> THEN 0 ELSE SetMax(Keys(od))]

\* last_page_number = max(page_to_section.keys()): max() of an empty sequence
\* raises ValueError
LastPageNumber(od) ==
    IF od = <<>>
    THEN [err |-> "ValueError", page |-> 0]
    ELSE [err |-> "none", page |-> SetMax(Keys(od))]

\* split_point = int(last_page_number)//number_volumes
SplitPoint(last_page_number, number_volumes) == last_page_number \div number_volumes

\* the index clamped one too high: min(page//split_point, number_volumes)
VolumeIndexOffByOne(page, split_point, number_volumes) ==
    Min(page \div split_point, number_volumes)

\* volume_index = min(page//split_point, number_volumes-1)
VolumeIndex(page, split_point, number_volumes) ==
    Min(page \div split_point, number_volumes - 1)

\* insert(0, section) in place of append(section)
PrependTo(volumes, volume_index, section) ==
    [volumes EXCEPT ![volume_index + 1] = <<section>> \o @]

\* volumes[volume_index]['sections'].append(section); volumes is 1-based here,
\* volumes[i + 1] is Python's volumes[i]
AppendTo(volumes, volume_index, section) ==
    [volumes EXCEPT ![volume_index + 1] = Append(@, section)]

\* the loop over page_to_section.items(), in the dictionary's own order;
\* page//split_point raises ZeroDivisionError when split_point is 0
RECURSIVE Assign(_, _, _, _)
Assign(od, volumes, split_point, number_volumes) ==
    IF od = <<>> THEN [err |-> "none", volumes |-> volumes]
    ELSE IF split_point = 0 THEN [err |-> "ZeroDivisionError", volumes |-> volumes]
    ELSE Assign(Tail(od),
                AppendTo(volumes,
                         VolumeIndex(Head(od).page, split_point, number_volumes),
                         Head(od).section),
                split_point, number_volumes)

\* Lines 210-244 of split_volumes for number_volumes >= 2: the outcome of
\* parsing the ToC and bucketing the sections.
Partition(toc, nsec, number_volumes) ==
    IF ~toc.exists
    THEN [err |-> "FileNotFoundError", od |-> <<>>, sections |-> <<>>]
    ELSE LET parsed == ParseLines(toc.lines, <<>>, 0, nsec) IN
         IF parsed.err # "none"
         THEN [err |-> parsed.err, od |-> parsed.od, sections |-> <<>>]
         ELSE LET last == LastPageNumber(parsed.od) IN
              IF last.err # "none"
              THEN [err |-> last.err, od |-> parsed.od, sections |-> <<>>]
              ELSE LET split_point == SplitPoint(last.page, number_volumes)
                       assigned == Assign(parsed.od,
                                          [i \in 1..number_volumes |-> <<>>],
                                          split_point, number_volumes)
                   IN [err |-> assigned.err, od |-> parsed.od,
                       sections |-> IF assigned.err = "none"
                                    THEN assigned.volumes ELSE <<>>]

\* the early return taken only below one volume
NoSplitBelowOne(number_volumes) == number_volumes < MinSplit - 1

\* if number_volumes < 2: return [book_info]
NoSplit(number_volumes) == number_volumes < MinSplit

\* ------------------------------------------------------------------ state
VARIABLES
    prog,             \* which script runs: "make_book" or "make_chapter"
    pc,               \* the statement the script is at
    nsections,        \* len(book_info['sections'])
    number_volumes,   \* --volumes
    keep_tex,         \* --keep_tex (make_chapter)
    toc,              \* the contents of book.toc once pdflatex has run
    tocRead,          \* split_volumes has opened book_info['toc']
    page_to_section,  \* the OrderedDict of split_volumes
    volumes,          \* the list split_volumes returns to the main block
    idx,              \* the index of the loop the script is in
    err,              \* the exception that left the with block, or "none"
    tmpExists,        \* the directory made by tempfile.mkdtemp() exists
    cwd,              \* the working directory: "orig" or "tmp"
    rendered,         \* documents whose .tex document file has been written
    compiles,         \* pdflatex runs per document
    pdf,              \* documents whose .pdf lies in the temporary directory
    moved,            \* files moved to the original working directory
    files,            \* the relative paths os.walk finds (build_sections)
    sections          \* the tex_file of each section build_sections returns

vars == <<prog, pc, nsections, number_volumes, keep_tex, toc, tocRead,
          page_to_section, volumes, idx, err, tmpExists, cwd, rendered,
          compiles, pdf, moved, files, sections>>

\* -------------------------------------------------------------- documents
BookDoc == [kind |-> "book", i |-> 0]
VolDoc(i) == [kind |-> "vol", i |-> i]
ChapterDoc == [kind |-> "chapter", i |-> 0]
ChapterTex == [kind |-> "chapter_tex", i |-> 0]
VolDocs == {VolDoc(i) : i \in 0..(SetMax(VolumeCounts) - 1)}
Docs == {BookDoc, ChapterDoc} \cup VolDocs

\* book_info as the main block builds it
BookInfo(nsec) ==
    [tex_file |-> BookDoc, title |-> <<"title">>, releasedate |-> "release",
     contentsdir |-> "contents", sections |-> [k \in 1..nsec |-> k]]

\* a volume once the loop of split_volumes has added its remaining keys
VolumeInfo(index, secs) ==
    [tex_file |-> VolDoc(index), title |-> <<"title", "Volume", index>>,
     releasedate |-> BookInfo(0).releasedate,
     contentsdir |-> BookInfo(0).contentsdir, sections |-> secs]

\* a create_toc that runs pdflatex once
create_toc_once(c, doc) == [c EXCEPT ![doc] = @ + 1]

\* create_toc: pdflatex twice
create_toc(c, doc) == [c EXCEPT ![doc] = @ + TocPasses]

\* create_pdf: pdflatex once more
create_pdf(c, doc) == [c EXCEPT ![doc] = @ + PdfPasses]

\* cd() without try/finally: an exception skips chdir and cleanup
cd_no_finally(raised) ==
    IF raised THEN [cwd |-> "tmp", tmpExists |-> TRUE]
    ELSE [cwd |-> "orig", tmpExists |-> FALSE]

\* cd(): the finally clause, run whether or not the body raised:
\* os.chdir(prevdir); cleanup()
cd_finally(raised) == [cwd |-> "orig", tmpExists |-> FALSE]

\* the same clause of make_chapter.py
chapter_cd_finally(raised) == [cwd |-> "orig", tmpExists |-> FALSE]

\* ------------------------------------------------------------------- Init
Idle ==
    /\ toc = [exists |-> FALSE, lines |-> <<>>]
    /\ tocRead = FALSE
    /\ page_to_section = <<>>
    /\ volumes = <<>>
    /\ idx = 0
    /\ err = "none"
    /\ tmpExists = FALSE
    /\ cwd = "orig"
    /\ rendered = {}
    /\ compiles = [d \in Docs |-> 0]
    /\ pdf = {}
    /\ moved = {}

Init ==
    /\ pc = "start"
    /\ \/ /\ prog = "make_book"
          /\ nsections \in SectionCounts
          /\ number_volumes \in VolumeCounts
          /\ keep_tex = FALSE
       \/ /\ prog = "make_chapter"
          /\ nsections = 0
          /\ number_volumes = 1
          /\ keep_tex \in BOOLEAN
    /\ Idle
    /\ files = <<>>
    /\ sections = <<>>

\* ---------------------------------------------------- make_book.py, main
\* with tempdir() as tmp: mkdtemp, then cd() changes into it
EnterTempdir ==
    /\ prog = "make_book" /\ pc = "start"
    /\ tmpExists' = TRUE
    /\ cwd' = "tmp"
    /\ pc' = "create_volume"
    /\ UNCHANGED <<prog, nsections, number_volumes, keep_tex, toc, tocRead,
                   page_to_section, volumes, idx, err, rendered, compiles, pdf,
                   moved, files, sections>>

\* create_volume(book_info): the fragments, gplv2.tex and book.tex are
\* written, or a template or file error is raised
BookCreateVolume ==
    /\ prog = "make_book" /\ pc = "create_volume"
    /\ \/ /\ rendered' = rendered \cup {BookDoc}
          /\ pc' = "create_toc"
          /\ err' = err
       \/ /\ rendered' = rendered
          /\ pc' = "raised"
          /\ err' = "TemplateError"
    /\ UNCHANGED <<prog, nsections, number_volumes, keep_tex, toc, tocRead,
                   page_to_section, volumes, idx, tmpExists, cwd, compiles, pdf,
                   moved, files, sections>>

\* create_toc(book_info): two pdflatex runs, whose exit status is not looked
\* at; they leave some book.toc, or none
BookCreateToc ==
    /\ prog = "make_book" /\ pc = "create_toc"
    /\ compiles' = create_toc(compiles, BookDoc)
    /\ toc' \in TocFiles
    /\ pc' = "split_volumes"
    /\ UNCHANGED <<prog, nsections, number_volumes, keep_tex, tocRead,
                   page_to_section, volumes, idx, err, tmpExists, cwd, rendered,
                   pdf, moved, files, sections>>

\* split_volumes, lines 206-244: the early return, or the parse of the ToC
\* and the bucketing of the sections (an exception leaves the with block)
SplitVolumes ==
    /\ prog = "make_book" /\ pc = "split_volumes"
    /\ IF NoSplit(number_volumes)
       THEN /\ volumes' = <<BookInfo(nsections)>>
            /\ pc' = "create_pdf"
            /\ UNCHANGED <<tocRead, page_to_section, err>>
       ELSE LET r == Partition(toc, nsections, number_volumes) IN
            /\ tocRead' = TRUE
            /\ page_to_section' = r.od
            /\ err' = r.err
            /\ IF r.err = "none"
               THEN /\ volumes' = [i \in 1..number_volumes |->
                                     [sections |-> r.sections[i]]]
                    /\ pc' = "vol_create_volume"
               ELSE /\ volumes' = volumes
                    /\ pc' = "raised"
    /\ idx' = 0
    /\ UNCHANGED <<prog, nsections, number_volumes, keep_tex, toc, tmpExists,
                   cwd, rendered, compiles, pdf, moved, files, sections>>

\* split_volumes, lines 246-255: volume idx gets its remaining keys and
\* create_volume(volume) writes vol<idx>.tex, or raises
VolCreateVolume ==
    /\ prog = "make_book" /\ pc = "vol_create_volume"
    /\ \/ /\ volumes' = [volumes EXCEPT ![idx + 1] = VolumeInfo(idx, @.sections)]
          /\ rendered' = rendered \cup {VolDoc(idx)}
          /\ pc' = "vol_create_toc"
          /\ err' = err
       \/ /\ volumes' = [volumes EXCEPT ![idx + 1] = VolumeInfo(idx, @.sections)]
          /\ rendered' = rendered
          /\ pc' = "raised"
          /\ err' = "TemplateError"
    /\ UNCHANGED <<prog, nsections, number_volumes, keep_tex, toc, tocRead,
                   page_to_section, idx, tmpExists, cwd, compiles, pdf, moved,
                   files, sections>>

\* split_volumes, line 256 and the loop's step: create_toc(volume); after the
\* last volume the list is returned to the main block
VolCreateToc ==
    /\ prog = "make_book" /\ pc = "vol_create_toc"
    /\ compiles' = create_toc(compiles, VolDoc(idx))
    /\ IF idx + 1 < number_volumes
       THEN /\ idx' = idx + 1
            /\ pc' = "vol_create_volume"
       ELSE /\ idx' = 0
            /\ pc' = "create_pdf"
    /\ UNCHANGED <<prog, nsections, number_volumes, keep_tex, toc, tocRead,
                   page_to_section, volumes, err, tmpExists, cwd, rendered, pdf,
                   moved, files, sections>>

\* create_pdf(volume): the final pdflatex run; it leaves a pdf or, when the
\* compiler fails, none (its exit status is not looked at)
CreatePdf ==
    /\ prog = "make_book" /\ pc = "create_pdf"
    /\ LET doc == volumes[idx + 1].tex_file IN
       /\ compiles' = create_pdf(compiles, doc)
       /\ \/ pdf' = pdf \cup {doc}
          \/ pdf' = pdf
    /\ pc' = "copy_pdf"
    /\ UNCHANGED <<prog, nsections, number_volumes, keep_tex, toc, tocRead,
                   page_to_section, volumes, idx, err, tmpExists, cwd, rendered,
                   moved, files, sections>>

\* copy_pdf(volume, tmp, orig_work_dir): shutil.move, which raises when the
\* pdf is not there; then the next volume, or the end of the with block
CopyPdf ==
    /\ prog = "make_book" /\ pc = "copy_pdf"
    /\ LET doc == volumes[idx + 1].tex_file IN
       IF doc \in pdf
       THEN /\ pdf' = pdf \ {doc}
            /\ moved' = moved \cup {doc}
            /\ err' = err
            /\ IF idx + 1 < Len(volumes)
               THEN /\ idx' = idx + 1
                    /\ pc' = "create_pdf"
               ELSE /\ idx' = idx
                    /\ pc' = "exit"
       ELSE /\ err' = "FileNotFoundError"
            /\ pc' = "raised"
            /\ UNCHANGED <<pdf, moved, idx>>
    /\ UNCHANGED <<prog, nsections, number_volumes, keep_tex, toc, tocRead,
                   page_to_section, volumes, tmpExists, cwd, rendered, compiles,
                   files, sections>>

\* the with block is left, normally or by an exception: cd()'s finally clause
ExitTempdir ==
    /\ prog = "make_book" /\ pc \in {"exit", "raised"}
    /\ LET after == cd_finally(pc = "raised") IN
       /\ cwd' = after.cwd
       /\ tmpExists' = after.tmpExists
    /\ pc' = "done"
    /\ UNCHANGED <<prog, nsections, number_volumes, keep_tex, toc, tocRead,
                   page_to_section, volumes, idx, err, rendered, compiles, pdf,
                   moved, files, sections>>

\* ------------------------------------------------- make_chapter.py, main
ChapterEnterTempdir ==
    /\ prog = "make_chapter" /\ pc = "start"
    /\ tmpExists' = TRUE
    /\ cwd' = "tmp"
    /\ pc' = "create_chapter"
    /\ UNCHANGED <<prog, nsections, number_volumes, keep_tex, toc, tocRead,
                   page_to_section, volumes, idx, err, rendered, compiles, pdf,
                   moved, files, sections>>

\* create_chapter(info): the chapter's .tex is written, or the template or
\* the file raises
CreateChapter ==
    /\ prog = "make_chapter" /\ pc = "create_chapter"
    /\ \/ /\ rendered' = rendered \cup {ChapterDoc}
          /\ pc' = "create_pdf"
          /\ err' = err
       \/ /\ rendered' = rendered
          /\ pc' = "raised"
          /\ err' = "TemplateError"
    /\ UNCHANGED <<prog, nsections, number_volumes, keep_tex, toc, tocRead,
                   page_to_section, volumes, idx, tmpExists, cwd, compiles, pdf,
                   moved, files, sections>>

\* create_pdf(info): one pdflatex run, which leaves a pdf or none
ChapterCreatePdf ==
    /\ prog = "make_chapter" /\ pc = "create_pdf"
    /\ compiles' = [compiles EXCEPT ![ChapterDoc] = @ + 1]
    /\ \/ pdf' = pdf \cup {ChapterDoc}
       \/ pdf' = pdf
    /\ pc' = "copy_pdf"
    /\ UNCHANGED <<prog, nsections, number_volumes, keep_tex, toc, tocRead,
                   page_to_section, volumes, idx, err, tmpExists, cwd, rendered,
                   moved, files, sections>>

\* copy_pdf(info, tmp, orig_work_dir)
ChapterCopyPdf ==
    /\ prog = "make_chapter" /\ pc = "copy_pdf"
    /\ IF ChapterDoc \in pdf
       THEN /\ pdf' = pdf \ {ChapterDoc}
            /\ moved' = moved \cup {ChapterDoc}
            /\ err' = err
            /\ pc' = IF keep_tex THEN "copy_tex" ELSE "exit"
       ELSE /\ err' = "FileNotFoundError"
            /\ pc' = "raised"
            /\ UNCHANGED <<pdf, moved>>
    /\ UNCHANGED <<prog, nsections, number_volumes, keep_tex, toc, tocRead,
                   page_to_section, volumes, idx, tmpExists, cwd, rendered,
                   compiles, files, sections>>

\* if keep_tex: copy_tex(info, tmp, orig_work_dir)
ChapterCopyTex ==
    /\ prog = "make_chapter" /\ pc = "copy_tex"
    /\ moved' = moved \cup {ChapterTex}
    /\ pc' = "exit"
    /\ UNCHANGED <<prog, nsections, number_volumes, keep_tex, toc, tocRead,
                   page_to_section, volumes, idx, err, tmpExists, cwd, rendered,
                   compiles, pdf, files, sections>>

ChapterExitTempdir ==
    /\ prog = "make_chapter" /\ pc \in {"exit", "raised"}
    /\ LET after == chapter_cd_finally(pc = "raised") IN
       /\ cwd' = after.cwd
       /\ tmpExists' = after.tmpExists
    /\ pc' = "done"
    /\ UNCHANGED <<prog, nsections, number_volumes, keep_tex, toc, tocRead,
                   page_to_section, volumes, idx, err, rendered, compiles, pdf,
                   moved, files, sections>>

Next ==
    \/ EnterTempdir
    \/ BookCreateVolume
    \/ BookCreateToc
    \/ SplitVolumes
    \/ VolCreateVolume
    \/ VolCreateToc
    \/ CreatePdf
    \/ CopyPdf
    \/ ExitTempdir
    \/ ChapterEnterTempdir
    \/ CreateChapter
    \/ ChapterCreatePdf
    \/ ChapterCopyPdf
    \/ ChapterCopyTex
    \/ ChapterExitTempdir

Spec == Init /\ [][Next]_vars

\* ------------------------------------------------ make_book.py, build_sections
\* the symbols a relative path is made of: three name atoms, and the three
\* characters build_sections treats specially
PathSymbols == {"a", "book", "vol0", ".", "/", "_"}

\* a relative path of a file: no empty component, no component '.' or '..'
IsFilePath(p) ==
    /\ Len(p) >= 1
    /\ p[1] # "/" /\ p[Len(p)] # "/"
    /\ \A i \in 1..(Len(p) - 1) : ~(p[i] = "/" /\ p[i + 1] = "/")
    /\ \A i \in 1..Len(p) :
         (i = 1 \/ p[i - 1] = "/") =>
            /\ ~(p[i] = "." /\ (i = Len(p) \/ p[i + 1] = "/"))
            /\ ~(/\ p[i] = "." /\ i + 1 <= Len(p) /\ p[i + 1] = "."
                 /\ (i + 1 = Len(p) \/ p[i + 2] = "/"))

FilePaths == {p \in SeqsUpTo(PathSymbols, MaxPathLen) : IsFilePath(p)}

\* p names a directory on the way to q, so p cannot be a file beside q
IsDirOf(p, q) ==
    /\ Len(p) < Len(q)
    /\ q[Len(p) + 1] = "/"
    /\ \A i \in 1..Len(p) : p[i] = q[i]

\* what os.walk can find under one root: distinct files, none a directory of
\* another
FileLists ==
    {fs \in SeqsUpTo(FilePaths, MaxFiles) :
        /\ Len(fs) >= 1
        /\ \A i, j \in 1..Len(fs) :
             i # j => fs[i] # fs[j] /\ ~IsDirOf(fs[i], fs[j])}

\* str.replace(old, new) for a one-character old
Replace(str, old, new) == [i \in 1..Len(str) |-> IF str[i] = old THEN new ELSE str[i]]

\* section['title'] = relative_path.replace('_','\_')
Title(relative_path) == Replace(relative_path, "_", "\\_")

\* section['tex_file'] = relative_path.replace('.','_').replace('/','_')
TexFile(relative_path) == Replace(Replace(relative_path, ".", "_"), "/", "_")

\* open(section['tex_file']+'.tex', 'w') in create_volume
FragmentFile(tex_file) == tex_file \o <<".", "tex">>

\* book_info['tex_file'] = 'book.tex' and volume['tex_file'] = 'vol0.tex'
DocumentFiles == {<<"book", ".", "tex">>, <<"vol0", ".", "tex">>}

InitSections ==
    /\ pc = "build_sections"
    /\ prog = "make_book"
    /\ nsections = 0
    /\ number_volumes = 1
    /\ keep_tex = FALSE
    /\ Idle
    /\ files \in FileLists
    /\ sections = <<>>

\* build_sections(parent_dir, color): one section per file, in walk order
BuildSections ==
    /\ pc = "build_sections"
    /\ sections' = [k \in 1..Len(files) |->
                      [title |-> Title(files[k]), tex_file |-> TexFile(files[k])]]
    /\ nsections' = Len(files)
    /\ pc' = "built"
    /\ UNCHANGED <<prog, number_volumes, keep_tex, toc, tocRead, page_to_section,
                   volumes, idx, err, tmpExists, cwd, rendered, compiles, pdf,
                   moved, files>>

NextSections == BuildSections

SpecSections == InitSections /\ [][NextSections]_vars

\* ====================================================== the properties
\* the page numbers of the lines that count as section entries: not a
\* chapter line, not a LICENSE line, matched by the section regex
RECURSIVE MatchedPages(_)
MatchedPages(lines) ==
    IF lines = <<>> THEN <<>>
    ELSE LET l == Head(lines) IN
         IF ~l.chapter /\ ~l.license /\ l.matched
         THEN <<l.page>> \o MatchedPages(Tail(lines))
         ELSE MatchedPages(Tail(lines))

NonDecreasing(seq) == \A i \in 1..(Len(seq) - 1) : seq[i] <= seq[i + 1]

Range(seq) == {seq[i] : i \in 1..Len(seq)}

\* the volumes' section lists, concatenated in volume order
RECURSIVE Flatten(_)
Flatten(vols) ==
    IF vols = <<>> THEN <<>> ELSE Head(vols).sections \o Flatten(Tail(vols))

\* K, the number of matched section entries of book.toc
K == Len(MatchedPages(toc.lines))

\* split_volumes has been called with number_volumes >= 2 on a ToC file that
\* exists, and has got past its parsing and bucketing (or has raised there)
SplitCalled ==
    /\ prog = "make_book"
    /\ number_volumes >= MinSplit
    /\ toc.exists
    /\ pc \in {"vol_create_volume", "vol_create_toc", "create_pdf", "copy_pdf",
               "exit", "raised", "done"}

\* ... and the bucketing produced the volume list
Bucketed == SplitCalled /\ volumes # <<>>

\* the page a section is bound to in page_to_section
PageOf(section) ==
    LET i == CHOOSE i \in 1..Len(page_to_section) : page_to_section[i].section = section
    IN page_to_section[i].page

NoVolumeTouched == \A d \in VolDocs : d \notin rendered /\ compiles[d] = 0

\* C1: with one matched entry per section, pages non-decreasing, and
\* last_page >= number_volumes >= 2, split_volumes returns number_volumes
\* volumes whose section lists, concatenated, are the original section list.
C1_PartitionKeepsEverySection ==
    ( /\ SplitCalled
      /\ nsections >= 1
      /\ K = nsections
      /\ NonDecreasing(MatchedPages(toc.lines))
      /\ SetMax(Range(MatchedPages(toc.lines))) >= number_volumes )
    => /\ Bucketed
       /\ Len(volumes) = number_volumes
       /\ Flatten(volumes) = [k \in 1..nsections |-> k]

\* C2: with number_volumes < 2 split_volumes returns the book alone, all its
\* sections in order and its metadata unchanged, without opening the ToC and
\* without rendering or compiling anything.
C2_NoSplitReturnsBook ==
    ( /\ prog = "make_book"
      /\ number_volumes < MinSplit
      /\ pc \in {"create_pdf", "copy_pdf", "exit"} )
    => /\ volumes = <<BookInfo(nsections)>>
       /\ volumes[1].sections = [k \in 1..nsections |-> k]
       /\ ~tocRead
       /\ page_to_section = <<>>
       /\ rendered = {BookDoc}
       /\ NoVolumeTouched
       /\ (pc = "create_pdf" => compiles[BookDoc] = TocPasses)

C2_Witness ==
    /\ prog = "make_book" /\ number_volumes = 1 /\ pc = "create_pdf"
    /\ nsections >= 2
    /\ K >= 1
    /\ volumes = <<BookInfo(nsections)>>

\* C3: every (page, section) pair of the mapping is placed in volume
\* min(floor(page / split_size), number_volumes - 1), with split_size =
\* floor(last_page / number_volumes); the index is in range, and a page at or
\* beyond number_volumes * split_size lands in the last volume.  With
\* last_page = 100 and number_volumes = 4, pages 24, 25, 99, 100 go to
\* volumes 0, 1, 3, 3.
C3_VolumeIndexClamped ==
    /\ Bucketed =>
         LET last_page == SetMax(Keys(page_to_section))
             split_size == last_page \div number_volumes
         IN /\ split_size >= 1
            /\ Len(volumes) = number_volumes
            /\ \A i \in 1..Len(page_to_section) :
                 LET e == page_to_section[i]
                     raw == e.page \div split_size
                     v == IF raw < number_volumes - 1 THEN raw ELSE number_volumes - 1
                 IN /\ v \in 0..(number_volumes - 1)
                    /\ e.section \in Range(volumes[v + 1].sections)
                    /\ \A w \in 1..number_volumes :
                         w # v + 1 => e.section \notin Range(volumes[w].sections)
                    /\ (e.page >= number_volumes * split_size
                          => e.section \in Range(volumes[number_volumes].sections))
    /\ (SplitCalled /\ toc = ScenarioToc /\ number_volumes = 4 /\ nsections = 4)
         => /\ Bucketed
            /\ SplitPoint(SetMax(Keys(page_to_section)), number_volumes) = 25
            /\ volumes[1].sections = <<1>>
            /\ volumes[2].sections = <<2>>
            /\ volumes[3].sections = <<>>
            /\ volumes[4].sections = <<3, 4>>

C3_Witness ==
    /\ Bucketed
    /\ LET split_size == SetMax(Keys(page_to_section)) \div number_volumes
       IN /\ \E i \in 1..Len(page_to_section) :
               page_to_section[i].page \div split_size >= number_volumes
          /\ \E i \in 1..Len(page_to_section) :
               page_to_section[i].page \div split_size = 0
    /\ toc = ScenarioToc /\ number_volumes = 4 /\ nsections = 4
    /\ volumes[number_volumes].sections = <<3, 4>>

\* C4: a ToC with no matched section entry makes split_volumes raise instead
\* of returning a volume list, before any volume is rendered or compiled.
C4_EmptyMappingRaises ==
    (SplitCalled /\ K = 0)
    => /\ pc \in {"raised", "done"}
       /\ err = "ValueError"
       /\ volumes = <<>>
       /\ page_to_section = <<>>
       /\ NoVolumeTouched

C4_Witness ==
    /\ SplitCalled /\ K = 0
    /\ toc.lines # <<>>
    /\ nsections >= 1
    /\ pc = "done" /\ err = "ValueError"

\* C5: when floor(last_page / number_volumes) is 0, split_volumes raises a
\* configuration error of its own and never performs the division by zero.
C5_ZeroSplitIsGuarded ==
    ( /\ SplitCalled
      /\ K >= 1 /\ K <= nsections
      /\ SetMax(Range(MatchedPages(toc.lines))) \div number_volumes = 0 )
    => /\ pc \in {"raised", "done"}
       /\ err \notin {"none", "ZeroDivisionError"}
       /\ NoVolumeTouched

\* C6: whatever way the with block is left (normally, by an exception of a
\* pipeline step, after a failed compile) the run ends with the temporary
\* directory removed and the working directory restored; while the block
\* runs, the directory exists and is the working directory.
C6_TempdirAlwaysRemoved ==
    /\ pc = "done" => (~tmpExists /\ cwd = "orig")
    /\ pc \in {"start", "build_sections", "built"} => (~tmpExists /\ cwd = "orig")
    /\ pc \notin {"start", "done", "build_sections", "built"} => (tmpExists /\ cwd = "tmp")

C6_Witness ==
    /\ pc = "done"
    /\ err = "FileNotFoundError"
    /\ compiles[BookDoc] > 0
    /\ ~tmpExists

\* C7 as stated: for every ToC, the sections of each volume are in ascending
\* page order.
C7_VolumePagesAscending ==
    Bucketed =>
      \A v \in 1..Len(volumes) :
        \A j \in 1..(Len(volumes[v].sections) - 1) :
          PageOf(volumes[v].sections[j]) <= PageOf(volumes[v].sections[j + 1])

\* C7 amended: when the matched page numbers of the ToC are non-decreasing
\* in ToC order, the sections of each volume are in ascending page order.
C7_AscendingForOrderedToc ==
    (Bucketed /\ NonDecreasing(MatchedPages(toc.lines)))
    => \A v \in 1..Len(volumes) :
         \A j \in 1..(Len(volumes[v].sections) - 1) :
           PageOf(volumes[v].sections[j]) <= PageOf(volumes[v].sections[j + 1])

C7_Witness ==
    /\ Bucketed /\ NonDecreasing(MatchedPages(toc.lines))
    /\ \E v \in 1..Len(volumes) :
         /\ Len(volumes[v].sections) >= 2
         /\ PageOf(volumes[v].sections[1]) < PageOf(volumes[v].sections[2])

\* C8 as stated: when K differs from the number of sections, no error is
\* raised for the mismatch and only the first min(K, M) sections are
\* partitioned.
C8_MismatchIsSilent ==
    (SplitCalled /\ K # nsections)
    => /\ err # "IndexError"
       /\ Bucketed => Range(Flatten(volumes)) \subseteq 1..Min(K, nsections)

\* C8 amended: with fewer entries than sections (K < M) no error is raised
\* for the mismatch, the i-th entry is bound to the i-th section and the
\* sections after the K-th reach no volume; with more entries than sections
\* (K > M) the lookup of the (M+1)-th section raises IndexError and no
\* volume list is returned.
C8_ShortTocSilentLongTocRaises ==
    /\ (SplitCalled /\ K < nsections)
       => /\ err # "IndexError"
          /\ \A i \in 1..Len(page_to_section) :
               LET e == page_to_section[i]
               IN e.section \in 1..K /\ MatchedPages(toc.lines)[e.section] = e.page
          /\ Bucketed => Range(Flatten(volumes)) \subseteq 1..K
    /\ (SplitCalled /\ K > nsections)
       => /\ err = "IndexError"
          /\ pc \in {"raised", "done"}
          /\ volumes = <<>>
          /\ NoVolumeTouched

C8_Witness ==
    /\ SplitCalled /\ K > nsections /\ nsections >= 1
    /\ err = "IndexError" /\ pc = "done"

\* C9: in make_book every document is rendered before it is compiled, is
\* compiled twice for its ToC and once more before its pdf is moved out; a
\* volume is rendered only after the whole book's two ToC passes; a run that
\* ends without an exception has moved out the book (number_volumes < 2) or
\* every volume 0..number_volumes-1.
C9_RenderCompileMoveOrder ==
    prog = "make_book" =>
      /\ \A d \in Docs :
           /\ compiles[d] > 0 => d \in rendered
           /\ compiles[d] <= TocPasses + PdfPasses
           /\ d \in moved => (d \in rendered /\ compiles[d] = TocPasses + PdfPasses)
           /\ d \in pdf => compiles[d] = TocPasses + PdfPasses
      /\ \A d \in VolDocs : d \in rendered => compiles[BookDoc] >= TocPasses
      /\ pc = "copy_pdf" => compiles[volumes[idx + 1].tex_file] = TocPasses + PdfPasses
      /\ pc = "create_pdf" =>
           /\ volumes[idx + 1].tex_file \in rendered
           /\ compiles[volumes[idx + 1].tex_file] = TocPasses
      /\ (pc = "done" /\ err = "none") =>
           moved = IF number_volumes < MinSplit THEN {BookDoc}
                   ELSE {VolDoc(i) : i \in 0..(number_volumes - 1)}

C9_Witness ==
    /\ prog = "make_book" /\ pc = "done" /\ err = "none"
    /\ number_volumes >= MinSplit
    /\ moved = {VolDoc(i) : i \in 0..(number_volumes - 1)}
    /\ compiles[BookDoc] = TocPasses

\* C10: two distinct files under one root get distinct fragment identifiers,
\* and no fragment is written to the file of the book or of a volume.
C10_FragmentNamesDistinct ==
    pc = "built" =>
      /\ \A i, j \in 1..Len(sections) :
           i # j => sections[i].tex_file # sections[j].tex_file
      /\ \A i \in 1..Len(sections) :
           FragmentFile(sections[i].tex_file) \notin DocumentFiles
====
